---- MODULE Spec2Model ----
(***************************************************************************)
(* Model of eth_ema_chart.py: for each of four fixed assets, fetch the     *)
(* daily price history from CoinGecko, compute the 9- and 21-span          *)
(* exponential moving averages, render a chart, upload it to Imgur and     *)
(* record the resulting URL in latest_chart_urls.txt.                      *)
(***************************************************************************)
EXTENDS Integers, Sequences, FiniteSets, TLC

\* ------------------------------------------------------------------ bounds

\* Longest price series a 200 response carries in the model.
MaxLen == 3

\* Prices are drawn from 1..MaxPrice.
MaxPrice == 2

\* Depth at which the interpreter refuses a further nested call of
\* fetch_data_from_coingecko (sys.getrecursionlimit(), scaled down).
RecursionLimit == 3

\* ------------------------------------------------------- exact arithmetic
\* Prices and averages are rationals <<numerator, denominator>> in lowest
\* terms with a positive denominator.

RECURSIVE Gcd(_, _)
Gcd(a, b) == IF b = 0 THEN a ELSE Gcd(b, a % b)

AbsInt(n) == IF n < 0 THEN -n ELSE n

Norm(n, d) ==
    LET g == Gcd(AbsInt(n), AbsInt(d))
        s == IF d < 0 THEN -1 ELSE 1
    IN  <<(s * n) \div g, (s * d) \div g>>

Rat(n) == <<n, 1>>
RAdd(x, y) == Norm(x[1] * y[2] + y[1] * x[2], x[2] * y[2])
RSub(x, y) == Norm(x[1] * y[2] - y[1] * x[2], x[2] * y[2])
RMul(x, y) == Norm(x[1] * y[1], x[2] * y[2])
RDiv(x, y) == Norm(x[1] * y[2], x[2] * y[1])
RLess(x, y) == x[1] * y[2] < y[1] * x[2]
RAbs(x) == <<AbsInt(x[1]), x[2]>>

\* ------------------------------------------------------------- the assets

\* main: assets = {'ETH': 'ethereum', 'AVAX': 'avalanche-2', ...}, in
\* insertion order.
Assets == <<"ETH", "AVAX", "XLM", "ONDO">>
Symbols == <<"ethereum", "avalanche-2", "stellar", "ondo-finance">>
NumAssets == Len(Assets)

\* ------------------------------------------------------------------- EMA

SPAN_SHORT == 9
SPAN_LONG == 21

\* ewm(span=N): alpha = 2 / (N + 1).
AlphaInverted(span) == RSub(Rat(1), RDiv(Rat(2), Rat(span + 1)))
AlphaFromCom(span) == RDiv(Rat(1), Rat(span + 1))
Alpha(span) == RDiv(Rat(2), Rat(span + 1))

\* One step of ewm(adjust=False).mean(): the running weighted average of the
\* previous output (weight 1 - alpha) and the current value (weight alpha),
\* left untouched when both are equal.
EwmStep(weighted, cur, span) ==
    LET old_wt == RMul(Rat(1), RSub(Rat(1), Alpha(span)))
        new_wt == Alpha(span)
    IN  IF weighted = cur
        THEN weighted
        ELSE RDiv(RAdd(RMul(old_wt, weighted), RMul(new_wt, cur)),
                  RAdd(old_wt, new_wt))

RECURSIVE EwmFrom(_, _, _)
EwmFrom(out, vals, span) ==
    IF Len(out) = Len(vals)
    THEN out
    ELSE EwmFrom(Append(out, EwmStep(out[Len(out)], vals[Len(out) + 1], span)),
                 vals, span)

\* The series the zero-seeded and the lagging variants would produce.
EwmZeroSeed(vals, span) ==
    IF vals = <<>> THEN <<>>
    ELSE EwmFrom(<<RMul(Alpha(span), vals[1])>>, vals, span)
EwmDropFirst(vals, span) ==
    IF vals = <<>> THEN <<>>
    ELSE Tail(EwmFrom(<<vals[1]>>, vals, span))

\* df['PRICE'].ewm(span=span, adjust=False).mean()
Ewm(vals, span) ==
    IF vals = <<>> THEN <<>> ELSE EwmFrom(<<vals[1]>>, vals, span)

\* The DataFrame fetch_data_from_coingecko returns: pd.DataFrame() when
\* there is no data, else the PRICE column with the two EMA columns.
EmptyFrame == [empty |-> TRUE, PRICE |-> <<>>, EXP_9 |-> <<>>, EXP_21 |-> <<>>]

MakeFrame(prices) ==
    [empty |-> FALSE,
     PRICE |-> prices,
     EXP_9 |-> Ewm(prices, SPAN_SHORT),
     EXP_21 |-> Ewm(prices, SPAN_LONG)]

\* The price series a 200 response with a 'prices' field can carry.
PriceSeries ==
    UNION {[1..n -> {Rat(p) : p \in 1..MaxPrice}] : n \in 1..MaxLen}

\* ------------------------------------------------------------ the ledger

\* latest_chart_urls.txt: absent, or a sequence of lines.
NoFile == [exists |-> FALSE, lines |-> <<>>]
File(ls) == [exists |-> TRUE, lines |-> ls]

\* f'{asset}: {url}\n'
Line(asset, url) == asset \o ": " \o url

\* What the file can hold when a run starts.
PriorLedgers ==
    {NoFile,
     File(<<>>),
     File(<<Line("ETH", "https://i.imgur.com/old1.png"),
            Line("XLM", "https://i.imgur.com/old2.png")>>)}

\* Links the image host hands out.
ImgurLinks == {"https://i.imgur.com/a.png", "https://i.imgur.com/b.png"}

\* open('latest_chart_urls.txt', 'a'); file.write(line)
TruncateThenWrite(f, line) == File(<<line>>)
AppendLine(f, line) == File(Append(f.lines, line))

RECURSIVE LinesOf(_)
LinesOf(ls) ==
    IF ls = <<>> THEN <<>>
    ELSE <<Line(ls[1][1], ls[1][2])>> \o LinesOf(Tail(ls))

\* save_chart_urls: open(..., 'w') and one line per item of links.
SaveAppending(f, ls) == File(f.lines \o LinesOf(ls))
save_chart_urls(f, ls) == File(LinesOf(ls))

\* main: `if links:`
SaveAlways(ls) == TRUE
ShouldSave(ls) == ls # <<>>

\* ------------------------------------------------------------------ state

VARIABLES
    pc,          \* where the run stands: "main", "get", "fetched", "upload",
                 \* "done", "fault"
    idx,         \* position in Assets of the loop of main
    requests,    \* HTTP GETs issued by the current call chain of fetch
    df,          \* the frame fetch returned to generate_and_upload_chart
    rendered,    \* assets whose chart was saved with plt.savefig
    uploaded,    \* assets whose chart was posted to the image host
    localFiles,  \* chart images on disk
    outcome,     \* per asset: "pending", "no_data", "upload_failed",
                 \* "published"
    links,       \* the dict links of main, in insertion order
    ledger,      \* latest_chart_urls.txt
    ledger0      \* latest_chart_urls.txt when the run started

vars == <<pc, idx, requests, df, rendered, uploaded, localFiles, outcome,
          links, ledger, ledger0>>

AssetSet == {Assets[i] : i \in 1..NumAssets}
asset == Assets[idx]
chart_name == asset \o "_chart.png"

Init ==
    /\ pc = "main"
    /\ idx = 1
    /\ requests = 0
    /\ df = EmptyFrame
    /\ rendered = {}
    /\ uploaded = {}
    /\ localFiles = {}
    /\ outcome = [a \in AssetSet |-> "pending"]
    /\ links = <<>>
    /\ ledger0 \in PriorLedgers
    /\ ledger = ledger0

\* ------------------------------------------------------------------- main

\* main: the loop body calls generate_and_upload_chart, which calls
\* fetch_data_from_coingecko(symbol).
Process ==
    /\ pc = "main"
    /\ idx <= NumAssets
    /\ pc' = "get"
    /\ requests' = 0
    /\ UNCHANGED <<idx, df, rendered, uploaded, localFiles, outcome, links,
                   ledger, ledger0>>

\* ------------------------------------------- fetch_data_from_coingecko

\* Statuses other than 200 and 429 the market-data endpoint answers with.
ErrorStatuses == {403, 404, 500, 503}

\* status 429: sleep, then call fetch_data_from_coingecko again. The nested
\* call is frame requests + 2 of the chain; past RecursionLimit the
\* interpreter raises RecursionError, which nothing catches.
FetchRateLimited ==
    /\ pc = "get"
    /\ requests' = requests + 1
    /\ pc' = IF requests + 2 <= RecursionLimit THEN "get" ELSE "fault"
    /\ UNCHANGED <<idx, df, rendered, uploaded, localFiles, outcome, links,
                   ledger, ledger0>>

\* any other status but 200: return pd.DataFrame()
FetchError ==
    /\ pc = "get"
    /\ \E status \in ErrorStatuses :
          /\ requests' = requests + 1
          /\ df' = EmptyFrame
          /\ pc' = "fetched"
    /\ UNCHANGED <<idx, rendered, uploaded, localFiles, outcome, links,
                   ledger, ledger0>>

\* status 200 with a body that is no JSON: response.json() raises.
FetchBadBody ==
    /\ pc = "get"
    /\ requests' = requests + 1
    /\ pc' = "fault"
    /\ UNCHANGED <<idx, df, rendered, uploaded, localFiles, outcome, links,
                   ledger, ledger0>>

\* status 200, JSON without 'prices': return pd.DataFrame()
FetchNoPrices ==
    /\ pc = "get"
    /\ requests' = requests + 1
    /\ df' = EmptyFrame
    /\ pc' = "fetched"
    /\ UNCHANGED <<idx, rendered, uploaded, localFiles, outcome, links,
                   ledger, ledger0>>

\* status 200 with prices: build the frame and its two EMA columns.
FetchPrices ==
    /\ pc = "get"
    /\ \E prices \in PriceSeries :
          /\ requests' = requests + 1
          /\ df' = MakeFrame(prices)
          /\ pc' = "fetched"
    /\ UNCHANGED <<idx, rendered, uploaded, localFiles, outcome, links,
                   ledger, ledger0>>

\* ------------------------------------------- generate_and_upload_chart

\* The variant in which an asset without data ends the loop.
SkipAssetAborts ==
    /\ pc = "fetched"
    /\ df.empty
    /\ outcome' = [outcome EXCEPT ![asset] = "no_data"]
    /\ idx' = NumAssets + 1
    /\ pc' = "main"
    /\ requests' = 0
    /\ UNCHANGED <<df, rendered, uploaded, localFiles, links, ledger, ledger0>>

\* df.empty: return None; main logs the failure and goes on to the next
\* asset.
SkipAsset ==
    /\ pc = "fetched"
    /\ df.empty
    /\ outcome' = [outcome EXCEPT ![asset] = "no_data"]
    /\ idx' = idx + 1
    /\ pc' = "main"
    /\ requests' = 0
    /\ UNCHANGED <<df, rendered, uploaded, localFiles, links, ledger, ledger0>>

\* plot the three series and plt.savefig(chart_name)
RenderChart ==
    /\ pc = "fetched"
    /\ ~df.empty
    /\ rendered' = rendered \cup {asset}
    /\ localFiles' = localFiles \cup {chart_name}
    /\ pc' = "upload"
    /\ requests' = 0
    /\ UNCHANGED <<idx, df, uploaded, outcome, links, ledger, ledger0>>

\* upload_to_imgur answers 200 with a link: append the line to the ledger,
\* remove the local image (a failure to remove it is caught), return the
\* link; main stores it in links.
UploadOk ==
    /\ pc = "upload"
    /\ \E url \in ImgurLinks, removed \in BOOLEAN :
          /\ ledger' = AppendLine(ledger, Line(asset, url))
          /\ localFiles' = IF removed THEN localFiles \ {chart_name}
                                      ELSE localFiles
          /\ links' = Append(links, <<asset, url>>)
    /\ uploaded' = uploaded \cup {asset}
    /\ outcome' = [outcome EXCEPT ![asset] = "published"]
    /\ df' = EmptyFrame
    /\ idx' = idx + 1
    /\ pc' = "main"
    /\ UNCHANGED <<requests, rendered, ledger0>>

\* upload_to_imgur answers another status with a JSON body: returns
\* (None, None); the image stays on disk and main logs the failure.
UploadRejected ==
    /\ pc = "upload"
    /\ uploaded' = uploaded \cup {asset}
    /\ outcome' = [outcome EXCEPT ![asset] = "upload_failed"]
    /\ df' = EmptyFrame
    /\ idx' = idx + 1
    /\ pc' = "main"
    /\ UNCHANGED <<requests, rendered, localFiles, links, ledger, ledger0>>

\* the image host answers with a body that is no JSON: response.json()
\* raises before the status is looked at.
UploadBadBody ==
    /\ pc = "upload"
    /\ uploaded' = uploaded \cup {asset}
    /\ pc' = "fault"
    /\ UNCHANGED <<idx, requests, df, rendered, localFiles, outcome, links,
                   ledger, ledger0>>

\* main after the loop: `if links: save_chart_urls(links)`
Finish ==
    /\ pc = "main"
    /\ idx = NumAssets + 1
    /\ ledger' = IF ShouldSave(links) THEN save_chart_urls(ledger, links)
                                      ELSE ledger
    /\ pc' = "done"
    /\ UNCHANGED <<idx, requests, df, rendered, uploaded, localFiles, outcome,
                   links, ledger0>>

Next ==
    \/ Process
    \/ FetchRateLimited
    \/ FetchError
    \/ FetchBadBody
    \/ FetchNoPrices
    \/ FetchPrices
    \/ SkipAsset
    \/ RenderChart
    \/ UploadOk
    \/ UploadRejected
    \/ UploadBadBody
    \/ Finish

Spec == Init /\ [][Next]_vars

\* ---------------------------------------------------------------- helpers

InLoop == pc \in {"main", "get", "fetched", "upload"}

Published == {a \in AssetSet : outcome[a] = "published"}

LinkedAssets == {links[i][1] : i \in 1..Len(links)}

\* The positions of Assets, increasing along links.
InAssetOrder(ls) ==
    \A i, j \in 1..Len(ls) :
        i < j => \E m, n \in 1..NumAssets :
                    /\ m < n
                    /\ Assets[m] = ls[i][1]
                    /\ Assets[n] = ls[j][1]

IsConstant(p) == \A i \in 1..Len(p) : p[i] = p[1]

\* p holds one value before position k and another from k on.
IsStepAt(p, k) ==
    /\ k \in 2..Len(p)
    /\ \A i \in 1..(k - 1) : p[i] = p[1]
    /\ \A i \in k..Len(p) : p[i] = p[k]
    /\ p[1] # p[k]

\* price_t * a + output_{t-1} * (1 - a) with a = 2 / (N + 1)
Reference(price, prev, N) ==
    LET a == RDiv(Rat(2), Rat(N + 1))
    IN  RAdd(RMul(price, a), RMul(prev, RSub(Rat(1), a)))

FollowsReference(ema, price, N) ==
    /\ Len(ema) = Len(price)
    /\ ema[1] = price[1]
    /\ \A t \in 2..Len(price) : ema[t] = Reference(price[t], ema[t - 1], N)

\* Sum of |ema[t] - v| for t in from..to.
RECURSIVE CumDist(_, _, _, _)
CumDist(ema, v, from, to) ==
    IF from > to THEN Rat(0)
    ELSE RAdd(RAbs(RSub(ema[from], v)), CumDist(ema, v, from + 1, to))

\* ----------------------------------------------------------------- claims

\* C1: one call of fetch_data_from_coingecko issues at most two HTTP
\* requests, whatever the upstream answers (one retry after a 429).
C1_AtMostTwoRequests == requests <= 2

C3_NoFaultPropagated == pc # "fault"

\* C4: an asset whose fetch came back empty is skipped (no chart, no upload,
\* no link, the ledger untouched by the step) and the loop goes on with the
\* next asset, so a finished run has processed every asset.
C4_SkipInv ==
    /\ \A a \in AssetSet :
          outcome[a] = "no_data" =>
              /\ a \notin rendered
              /\ a \notin uploaded
              /\ a \notin LinkedAssets
              /\ (a \o "_chart.png") \notin localFiles
    /\ pc = "done" =>
          /\ idx = NumAssets + 1
          /\ \A a \in AssetSet : outcome[a] # "pending"

C4_SkipStep ==
    (pc = "fetched" /\ df.empty) =>
        /\ pc' = "main"
        /\ idx' = idx + 1
        /\ outcome'[asset] = "no_data"
        /\ UNCHANGED <<rendered, uploaded, localFiles, links, ledger>>

C4_EmptyFetchSkipsAsset == [][C4_SkipStep]_vars /\ []C4_SkipInv

C4_Witness ==
    /\ pc = "done"
    /\ outcome["ETH"] = "no_data"
    /\ outcome["XLM"] = "no_data"
    /\ outcome["AVAX"] = "published"
    /\ outcome["ONDO"] = "published"

\* C5: both EMA columns are as long as the PRICE column and start with the
\* first price.
C5_EmaLengthAndSeed ==
    ~df.empty =>
        /\ Len(df.EXP_9) = Len(df.PRICE)
        /\ Len(df.EXP_21) = Len(df.PRICE)
        /\ df.EXP_9[1] = df.PRICE[1]
        /\ df.EXP_21[1] = df.PRICE[1]

C5_Witness ==
    /\ pc = "fetched"
    /\ ~df.empty
    /\ Len(df.PRICE) = 3
    /\ ~IsConstant(df.PRICE)

\* C6: each EMA column equals the reference recurrence
\* price_t * a + output_{t-1} * (1 - a), a = 2 / (N + 1), seeded with the
\* first price, for N = 9 and N = 21 over the same PRICE column.
C6_EmaIsReference ==
    ~df.empty =>
        /\ FollowsReference(df.EXP_9, df.PRICE, 9)
        /\ FollowsReference(df.EXP_21, df.PRICE, 21)

C6_Witness ==
    /\ pc = "upload"
    /\ Len(df.PRICE) = 3
    /\ df.PRICE[1] # df.PRICE[2]
    /\ df.PRICE[2] # df.PRICE[3]
    /\ df.EXP_9 # df.EXP_21

\* C7: over a constant price series both EMA columns hold that constant at
\* every index.
C7_ConstantSeries ==
    (~df.empty /\ IsConstant(df.PRICE)) =>
        \A t \in 1..Len(df.PRICE) :
            /\ df.EXP_9[t] = df.PRICE[1]
            /\ df.EXP_21[t] = df.PRICE[1]

C7_Witness ==
    /\ pc = "fetched"
    /\ ~df.empty
    /\ IsConstant(df.PRICE)
    /\ Len(df.PRICE) = 3
    /\ df.PRICE[1] = Rat(2)

\* C8: over a price series that steps from one value to another at index k,
\* the cumulative distance of the span-9 EMA to the new value over every
\* window starting at k is smaller than that of the span-21 EMA.
C8_ShortSpanConvergesFaster ==
    ~df.empty =>
        \A k \in 2..Len(df.PRICE) :
            IsStepAt(df.PRICE, k) =>
                \A w \in 1..(Len(df.PRICE) - k + 1) :
                    RLess(CumDist(df.EXP_9, df.PRICE[k], k, k + w - 1),
                          CumDist(df.EXP_21, df.PRICE[k], k, k + w - 1))

C8_Witness ==
    /\ pc = "fetched"
    /\ ~df.empty
    /\ Len(df.PRICE) = 3
    /\ IsStepAt(df.PRICE, 2)

\* C9: during the loop the ledger is its content at the start of the run
\* followed by one line per asset published so far, in asset order; every
\* successful upload appends exactly its line and no other step of the loop
\* touches the file.
C9_LoopInv ==
    InLoop =>
        /\ ledger.lines = ledger0.lines \o LinesOf(links)
        /\ ledger.exists = (ledger0.exists \/ links # <<>>)
        /\ LinkedAssets = Published
        /\ InAssetOrder(links)

C9_AppendStep ==
    (InLoop /\ pc' # "done") =>
        IF outcome'[asset] = "published" /\ outcome[asset] # "published"
        THEN /\ pc = "upload"
             /\ pc' = "main"
             /\ idx' = idx + 1
             /\ \E url \in ImgurLinks :
                   ledger'.lines = Append(ledger.lines, Line(asset, url))
        ELSE ledger' = ledger

C9_IncrementalAppend == [][C9_AppendStep]_vars /\ []C9_LoopInv

C9_Witness ==
    /\ pc = "get"
    /\ idx = 4
    /\ ledger0.lines # <<>>
    /\ outcome["ETH"] = "published"
    /\ outcome["AVAX"] = "upload_failed"
    /\ outcome["XLM"] = "published"
    /\ Len(ledger.lines) = 4

\* C10: as long as no asset has been published the ledger is what it was
\* before the run, absent or not, also once main has finished.
C10_UntouchedWithoutPublication ==
    links = <<>> => ledger = ledger0

C10_Witness ==
    /\ pc = "done"
    /\ links = <<>>
    /\ ledger0.lines # <<>>
    /\ \E a \in AssetSet : outcome[a] = "upload_failed"
    /\ \E a \in AssetSet : outcome[a] = "no_data"

====
